---- MODULE Spec2Model ----
(***************************************************************************)
(* Model of the AI software scanner: src/src/ai_scanner_core.py (loader,   *)
(* classifier, review-flag policy, report writer) driven by                *)
(* src/src/azure_implementation.py (main).                                 *)
(*                                                                         *)
(* Python strings are TLA+ strings; the str methods the code uses are      *)
(* operators that compute character by character, as the methods do.       *)
(***************************************************************************)
EXTENDS Integers, Sequences, FiniteSets, TLC

VARIABLES
    pc,             \* position of main(): "start", "load", "client", "scan", "save", "summary", "done", "exit"
    file_exists,    \* Path(input_file).exists()
    argv,           \* [sheet_name, all_sheets] parsed from sys.argv
    wb,             \* the workbook: [sheetnames |-> <<...>>, rows |-> [name |-> rows]]
    software_list,  \* main(): software_list
    results,        \* scan_software: results
    flagged,        \* scan_software: flagged
    outcomes,       \* what the LLM endpoint did on each call, in call order
    prompts,        \* the software_info sent with each call, in call order
    report,         \* rows written to ai_scan_results.csv (header row excluded); NotWritten before
    exit_code,      \* process exit status; -1 while running
    entry,          \* check_for_ai / save_results called on their own: the argument
    outcome,        \* check_for_ai called on its own: what the endpoint does
    result,         \* check_for_ai called on its own: returned dict; NoResult before
    row             \* save_results called on one result: the written row; NoRow before

vars == <<pc, file_exists, argv, wb, software_list, results, flagged, outcomes,
          prompts, report, exit_code, entry, outcome, result, row>>

(***************************************************************************)
(* Python str primitives                                                   *)
(***************************************************************************)
Lowers == "abcdefghijklmnopqrstuvwxyz"
Uppers == "ABCDEFGHIJKLMNOPQRSTUVWXYZ"

\* position of character c in alphabet a, 0 when absent
IndexIn(c, a) ==
    IF \E i \in 1..Len(a) : SubSeq(a, i, i) = c
    THEN CHOOSE i \in 1..Len(a) : SubSeq(a, i, i) = c
    ELSE 0

upperChar(c) == LET i == IndexIn(c, Lowers) IN IF i = 0 THEN c ELSE SubSeq(Uppers, i, i)
lowerChar(c) == LET i == IndexIn(c, Uppers) IN IF i = 0 THEN c ELSE SubSeq(Lowers, i, i)

\* The recursions below halve the string or step from one match to the next,
\* so their depth stays small on strings of a few hundred characters.
RECURSIVE upper(_)
upper(s) ==
    IF s = "" THEN ""
    ELSE IF Len(s) = 1 THEN upperChar(s)
    ELSE LET h == Len(s) \div 2 IN upper(SubSeq(s, 1, h)) \o upper(SubSeq(s, h + 1, Len(s)))

RECURSIVE lower(_)
lower(s) ==
    IF s = "" THEN ""
    ELSE IF Len(s) = 1 THEN lowerChar(s)
    ELSE LET h == Len(s) \div 2 IN lower(SubSeq(s, 1, h)) \o lower(SubSeq(s, h + 1, Len(s)))

IsSpace(c) == c \in {" ", "\t", "\n", "\r"}

\* Python: s.strip()
strip(s) ==
    IF \A i \in 1..Len(s) : IsSpace(SubSeq(s, i, i)) THEN ""
    ELSE LET a == CHOOSE i \in 1..Len(s) :
                      /\ ~IsSpace(SubSeq(s, i, i))
                      /\ \A j \in 1..(i - 1) : IsSpace(SubSeq(s, j, j))
             b == CHOOSE i \in 1..Len(s) :
                      /\ ~IsSpace(SubSeq(s, i, i))
                      /\ \A j \in (i + 1)..Len(s) : IsSpace(SubSeq(s, j, j))
         IN SubSeq(s, a, b)

startswith(s, p) == Len(s) >= Len(p) /\ SubSeq(s, 1, Len(p)) = p

\* Python: sub in s
contains(sub, s) == \E i \in 1..(Len(s) - Len(sub) + 1) : SubSeq(s, i, i + Len(sub) - 1) = sub

\* Python: s.find(sub) + 1, so 0 when sub does not occur
find(s, sub) ==
    IF contains(sub, s)
    THEN CHOOSE i \in 1..(Len(s) - Len(sub) + 1) :
             /\ SubSeq(s, i, i + Len(sub) - 1) = sub
             /\ \A j \in 1..(i - 1) : SubSeq(s, j, j + Len(sub) - 1) # sub
    ELSE 0

\* Python: s.replace(old, ""), every non-overlapping occurrence, left to right
RECURSIVE replace(_, _)
replace(s, old) ==
    LET i == find(s, old) IN
    IF i = 0 THEN s
    ELSE SubSeq(s, 1, i - 1) \o replace(SubSeq(s, i + Len(old), Len(s)), old)

\* Python: s.split(sep) for a one-character sep
RECURSIVE split(_, _)
split(s, sep) ==
    LET i == find(s, sep) IN
    IF i = 0 THEN <<s>>
    ELSE <<SubSeq(s, 1, i - 1)>> \o split(SubSeq(s, i + 1, Len(s)), sep)

\* Python: s.rsplit(sep, 1)[0] for a one-character sep
rsplit1(s, sep) ==
    IF \E i \in 1..Len(s) : SubSeq(s, i, i) = sep
    THEN LET k == CHOOSE i \in 1..Len(s) :
                     /\ SubSeq(s, i, i) = sep
                     /\ \A j \in (i + 1)..Len(s) : SubSeq(s, j, j) # sep
         IN SubSeq(s, 1, k - 1)
    ELSE s

(***************************************************************************)
(* check_for_ai                                                            *)
(***************************************************************************)
MaxReason == 256
CutAt == 253

\* the software description line block put into the prompt
software_info(e) ==
    IF e.description # ""
    THEN e.vendor \o " " \o e.product \o "\nDescription: " \o e.description
    ELSE e.vendor \o " " \o e.product

\* variant: the prefixes are looked for in the upper-cased line
parse_line_any_case(v, rawline) ==
    LET line == upper(strip(rawline)) IN
    IF startswith(line, "HAS_AI:")
    THEN LET value == upper(strip(replace(line, "HAS_AI:")))
         IN [v EXCEPT !.has_ai = IF contains("YES", value) THEN "Yes"
                                 ELSE IF contains("NO", value) THEN "No"
                                 ELSE "Unknown"]
    ELSE IF startswith(line, "CONFIDENCE:")
    THEN [v EXCEPT !.confidence = upper(strip(replace(line, "CONFIDENCE:")))]
    ELSE IF startswith(line, "REASON:")
    THEN [v EXCEPT !.reason = strip(replace(line, "REASON:"))]
    ELSE v

\* variant: NO is looked for before YES
parse_line_no_first(v, rawline) ==
    LET line == strip(rawline) IN
    IF startswith(line, "HAS_AI:")
    THEN LET value == upper(strip(replace(line, "HAS_AI:")))
         IN [v EXCEPT !.has_ai = IF contains("NO", value) THEN "No"
                                 ELSE IF contains("YES", value) THEN "Yes"
                                 ELSE "Unknown"]
    ELSE IF startswith(line, "CONFIDENCE:")
    THEN [v EXCEPT !.confidence = upper(strip(replace(line, "CONFIDENCE:")))]
    ELSE IF startswith(line, "REASON:")
    THEN [v EXCEPT !.reason = strip(replace(line, "REASON:"))]
    ELSE v

\* one iteration of the parse loop: v is (has_ai, confidence, reason) so far
parse_line(v, rawline) ==
    LET line == strip(rawline) IN
    IF startswith(line, "HAS_AI:")
    THEN LET value == upper(strip(replace(line, "HAS_AI:")))
         IN [v EXCEPT !.has_ai = IF contains("YES", value) THEN "Yes"
                                 ELSE IF contains("NO", value) THEN "No"
                                 ELSE "Unknown"]
    ELSE IF startswith(line, "CONFIDENCE:")
    THEN [v EXCEPT !.confidence = upper(strip(replace(line, "CONFIDENCE:")))]
    ELSE IF startswith(line, "REASON:")
    THEN [v EXCEPT !.reason = strip(replace(line, "REASON:"))]
    ELSE v

\* variant: the lines are applied last to first, so the first match stays
RECURSIVE parse_lines_first_wins(_, _)
parse_lines_first_wins(v, lines) ==
    IF lines = <<>> THEN v
    ELSE parse_line(parse_lines_first_wins(v, Tail(lines)), Head(lines))

RECURSIVE parse_lines(_, _)
parse_lines(v, lines) ==
    IF lines = <<>> THEN v ELSE parse_lines(parse_line(v, Head(lines)), Tail(lines))

\* variant: the cut is made at the limit itself, leaving no room for the marker
truncate_reason_cut_at_limit(reason) ==
    IF Len(reason) > MaxReason
    THEN rsplit1(SubSeq(reason, 1, MaxReason), " ") \o "..."
    ELSE reason

truncate_reason(reason) ==
    IF Len(reason) > MaxReason
    THEN rsplit1(SubSeq(reason, 1, CutAt), " ") \o "..."
    ELSE reason

\* variant: the classification defaults to No
parse_response_default_no(text) ==
    LET v == parse_lines([has_ai |-> "No", confidence |-> "Low",
                          reason |-> "Could not determine"], split(text, "\n"))
    IN [v EXCEPT !.reason = truncate_reason(v.reason)]

parse_response(text) ==
    LET v == parse_lines([has_ai |-> "Unknown", confidence |-> "Low",
                          reason |-> "Could not determine"], split(text, "\n"))
    IN [v EXCEPT !.reason = truncate_reason(v.reason)]

\* An outcome of client.chat.completions.create followed by
\* response.choices[0].message.content:
\*   [kind |-> "text", text |-> t]   the reply has text content t
\*   [kind |-> "raise", msg |-> m]   the client raised an exception e, str(e) = m
\*   [kind |-> "none"]               message.content is None, so text.split raises
NoneSplitMsg == "'NoneType' object has no attribute 'split'"

error_verdict(msg) == [has_ai |-> "ERROR", confidence |-> "N/A", reason |-> msg]

\* variant: a reply without text is read as an empty reply
check_for_ai_none_as_empty(e, o) ==
    IF o.kind = "text" THEN parse_response(o.text)
    ELSE IF o.kind = "raise" THEN error_verdict(o.msg)
    ELSE parse_response("")

check_for_ai(e, o) ==
    IF o.kind = "text" THEN parse_response(o.text)
    ELSE IF o.kind = "raise" THEN error_verdict(o.msg)
    ELSE error_verdict(NoneSplitMsg)

(***************************************************************************)
(* Review-flag policy and report writer                                    *)
(***************************************************************************)
error_values == {"#REF!", "#N/A", "#VALUE!", "#DIV/0!", "#NAME?", "#NUM!", "#NULL!"}

\* variant: the missing-data check is left out
has_data_quality_issues_tokens_only(r) ==
    \E f \in {r.vendor, r.product, r.description} :
        \E err \in error_values : contains(err, f)

has_data_quality_issues(r) ==
    IF r.vendor = "" \/ r.product = "" THEN TRUE
    ELSE \E f \in {r.vendor, r.product, r.description} :
             \E err \in error_values : contains(err, f)

\* variant: @ is not in the list of risky first characters
sanitize_csv_value_without_at(value) ==
    IF value = "" THEN value
    ELSE IF SubSeq(value, 1, 1) \in {"=", "+", "-"} THEN "'" \o value
    ELSE value

sanitize_csv_value(value) ==
    IF value = "" THEN value
    ELSE IF SubSeq(value, 1, 1) \in {"=", "+", "-", "@"} THEN "'" \o value
    ELSE value

needs_review(r) ==
    IF r.has_ai \in {"Yes", "Unknown"} THEN "Yes"
    ELSE IF upper(r.confidence) = "LOW" THEN "Yes"
    ELSE IF has_data_quality_issues(r) THEN "Yes"
    ELSE "No"

\* the row save_results writes for one result
report_row(r) ==
    [sheet |-> r.sheet,
     vendor |-> sanitize_csv_value(r.vendor),
     product |-> sanitize_csv_value(r.product),
     description |-> sanitize_csv_value(r.description),
     has_ai |-> r.has_ai,
     confidence |-> r.confidence,
     reason |-> sanitize_csv_value(r.reason),
     needs_review |-> needs_review(r)]

\* variant: results are written newest first
save_results_reversed(rs) == [i \in 1..Len(rs) |-> report_row(rs[Len(rs) + 1 - i])]

save_results(rs) == [i \in 1..Len(rs) |-> report_row(rs[i])]

(***************************************************************************)
(* load_software_list                                                      *)
(***************************************************************************)
\* a cell as openpyxl returns it: None for an empty cell, else its text
None == [t |-> "None"]
Str(s) == [t |-> "str", v |-> s]

\* Python: str(c or "")
str_or_empty(c) == IF c = None \/ c = Str("") THEN "" ELSE c.v

\* header = [str(c).lower().strip() if c else "" for c in rows[0]]
header_of(row0) == [i \in 1..Len(row0) |-> IF row0[i] = None \/ row0[i] = Str("")
                                            THEN "" ELSE strip(lower(row0[i].v))]

\* Column indices are the code's, 0-based; NoCol is Python's None.
NoCol == -1

\* the header loop: cols is (vendor_col, product_col, desc_col, status_col) so far
RECURSIVE find_columns(_, _, _)
find_columns(header, i, cols) ==
    IF i > Len(header) THEN cols
    ELSE LET col == header[i] IN
         find_columns(header, i + 1,
            IF contains("vendor", col) /\ contains("name", col)
            THEN [cols EXCEPT !.vendor_col = i - 1]
            ELSE IF col = "product name" THEN [cols EXCEPT !.product_col = i - 1]
            ELSE IF col = "description" THEN [cols EXCEPT !.desc_col = i - 1]
            ELSE IF col = "status" THEN [cols EXCEPT !.status_col = i - 1]
            ELSE cols)

Max(a, b) == IF a > b THEN a ELSE b

\* Python truthiness of a column index: None and 0 are both false
truthy(col) == col # NoCol /\ col # 0

\* variant: the placeholder "nan" is compared without lower-casing
load_row_nan_case_sensitive(r, cols, sheet) ==
    IF Len(r) <= Max(cols.vendor_col, cols.product_col) THEN <<>>
    ELSE LET vendor == strip(str_or_empty(r[cols.vendor_col + 1]))
             product == strip(str_or_empty(r[cols.product_col + 1]))
             desc == IF truthy(cols.desc_col) /\ Len(r) > cols.desc_col
                     THEN strip(str_or_empty(r[cols.desc_col + 1])) ELSE ""
             status == IF truthy(cols.status_col) /\ Len(r) > cols.status_col
                       THEN upper(strip(str_or_empty(r[cols.status_col + 1]))) ELSE ""
         IN IF vendor = "" \/ product = "" \/ vendor = "nan" \/ product = "nan"
            THEN <<>>
            ELSE IF status = "INACTIVE" THEN <<>>
            ELSE <<[vendor |-> vendor, product |-> product,
                    description |-> IF lower(desc) = "nan" THEN "" ELSE desc,
                    sheet |-> sheet]>>

\* the body of the data-row loop: the records one row adds (none or one)
load_row(r, cols, sheet) ==
    IF Len(r) <= Max(cols.vendor_col, cols.product_col) THEN <<>>
    ELSE LET vendor == strip(str_or_empty(r[cols.vendor_col + 1]))
             product == strip(str_or_empty(r[cols.product_col + 1]))
             desc == IF truthy(cols.desc_col) /\ Len(r) > cols.desc_col
                     THEN strip(str_or_empty(r[cols.desc_col + 1])) ELSE ""
             status == IF truthy(cols.status_col) /\ Len(r) > cols.status_col
                       THEN upper(strip(str_or_empty(r[cols.status_col + 1]))) ELSE ""
         IN IF vendor = "" \/ product = "" \/ lower(vendor) = "nan" \/ lower(product) = "nan"
            THEN <<>>
            ELSE IF status = "INACTIVE" THEN <<>>
            ELSE <<[vendor |-> vendor, product |-> product,
                    description |-> IF lower(desc) = "nan" THEN "" ELSE desc,
                    sheet |-> sheet]>>

RECURSIVE load_rows(_, _, _)
load_rows(rows, cols, sheet) ==
    IF rows = <<>> THEN <<>>
    ELSE load_row(Head(rows), cols, sheet) \o load_rows(Tail(rows), cols, sheet)

load_sheet(w, sheet) ==
    IF \A k \in 1..Len(w.sheetnames) : w.sheetnames[k] # sheet THEN <<>>
    ELSE LET rows == w.rows[sheet] IN
         IF rows = <<>> THEN <<>>
         ELSE LET cols == find_columns(header_of(rows[1]), 1,
                              [vendor_col |-> NoCol, product_col |-> NoCol,
                               desc_col |-> NoCol, status_col |-> NoCol])
              IN IF cols.vendor_col = NoCol \/ cols.product_col = NoCol THEN <<>>
                 ELSE load_rows(Tail(rows), cols, sheet)

RECURSIVE load_sheets(_, _)
load_sheets(w, sheets) ==
    IF sheets = <<>> THEN <<>>
    ELSE load_sheet(w, Head(sheets)) \o load_sheets(w, Tail(sheets))

DefaultSheet == "MASTER Spreadsheet"
NoSheetName == ""

load_software_list(w, sheet_name, all_sheets) ==
    load_sheets(w, IF all_sheets THEN w.sheetnames
                   ELSE IF sheet_name = NoSheetName THEN <<DefaultSheet>>
                   ELSE <<sheet_name>>)

(***************************************************************************)
(* Inputs                                                                  *)
(***************************************************************************)
MaxRows == 2    \* data rows of the first sheet
MaxLines == 2   \* lines of a reply given to check_for_ai on its own

RECURSIVE Rep(_, _)
Rep(s, n) ==
    IF n = 0 THEN ""
    ELSE IF n = 1 THEN s
    ELSE Rep(s, n \div 2) \o Rep(s, n - (n \div 2))

\* the sequences over S of length at most n
RECURSIVE SeqsUpTo(_, _)
SeqsUpTo(S, n) ==
    IF n = 0 THEN {<<>>}
    ELSE LET shorter == SeqsUpTo(S, n - 1)
         IN shorter \cup {Append(q, x) : q \in {t \in shorter : Len(t) = n - 1}, x \in S}

\* Data rows by field; a sheet lays the fields out in the order of its header.
LRows ==
    { [vendor |-> Str("Acme"), product |-> Str("Transcribe Pro"),
       description |-> Str("voice to text"), status |-> None],
      [vendor |-> Str("Acme"), product |-> Str("Ledger"),
       description |-> None, status |-> Str("INACTIVE")],
      [vendor |-> Str(" NaN "), product |-> Str("Ledger"),
       description |-> Str("books"), status |-> Str("Active")],
      [vendor |-> Str("Globex"), product |-> None,
       description |-> Str("nan"), status |-> Str("Active")],
      [vendor |-> Str("=SUM(A1:A9)"), product |-> Str("-Tool"),
       description |-> Str("nan"), status |-> Str(" inactive")],
      [vendor |-> Str("Globex"), product |-> Str("Calc #REF!"),
       description |-> Str("+1 more"), status |-> Str("Active")] }

\* header layouts: the fields in column order, and the spelling of the header cells
Layouts ==
    { [fields |-> <<"vendor", "product", "description", "status">>, style |-> 1],
      [fields |-> <<"status", "vendor", "product", "description">>, style |-> 1],
      [fields |-> <<"description", "product", "other", "status", "vendor">>, style |-> 2],
      [fields |-> <<"product", "vendor">>, style |-> 1],
      [fields |-> <<"vendor", "description", "status">>, style |-> 2] }

HeaderText(style, f) ==
    IF style = 1
    THEN CASE f = "vendor" -> Str("Vendor Name")
           [] f = "product" -> Str("Product Name")
           [] f = "description" -> Str("Description")
           [] f = "status" -> Str("Status")
           [] OTHER -> None
    ELSE CASE f = "vendor" -> Str(" Name of VENDOR ")
           [] f = "product" -> Str("PRODUCT NAME")
           [] f = "description" -> Str("description ")
           [] f = "status" -> Str(" STATUS")
           [] OTHER -> Str("Notes")

HeaderRow(l) == [i \in 1..Len(l.fields) |-> HeaderText(l.style, l.fields[i])]

DataRow(l, r) == [i \in 1..Len(l.fields) |->
                     IF l.fields[i] = "other" THEN None ELSE r[l.fields[i]]]

SheetRows(l, rs) == <<HeaderRow(l)>> \o [i \in 1..Len(rs) |-> DataRow(l, rs[i])]

SecondSheet == "Dental School"

SecondRows ==
    << <<Str("Vendor Name"), Str("Product Name")>>,
       <<Str("Initech"), Str("Scan @ Home")>> >>

Workbooks ==
    { [sheetnames |-> <<DefaultSheet, SecondSheet>>,
       rows |-> (DefaultSheet :> SheetRows(l, rs)) @@ (SecondSheet :> SecondRows)]
      : l \in Layouts, rs \in SeqsUpTo(LRows, MaxRows) }

EmptyWorkbook == [sheetnames |-> <<DefaultSheet>>, rows |-> (DefaultSheet :> <<>>)]

Argvs ==
    { [given |-> TRUE, sheet_name |-> NoSheetName, all_sheets |-> FALSE],
      [given |-> TRUE, sheet_name |-> NoSheetName, all_sheets |-> TRUE],
      [given |-> TRUE, sheet_name |-> "Research", all_sheets |-> FALSE] }

NoArgv == [given |-> FALSE, sheet_name |-> NoSheetName, all_sheets |-> FALSE]

\* what the endpoint may do on a call made by main()
Outcomes ==
    { [kind |-> "text", text |-> "HAS_AI: Yes\nCONFIDENCE: High\nREASON: uses OCR"],
      [kind |-> "text", text |-> "HAS_AI: No\nCONFIDENCE: High\nREASON: - no AI features"],
      [kind |-> "text", text |-> "I do not know this product."],
      [kind |-> "raise", msg |-> "Connection error."],
      [kind |-> "none"] }

(***************************************************************************)
(* main() of azure_implementation.py                                       *)
(***************************************************************************)
NotWritten == [written |-> FALSE, rows |-> <<>>]
NoEntry == [unset |-> TRUE]
NoOutcome == [kind |-> "unset"]
NoResult == [unset |-> TRUE]
NoRow == [unset |-> TRUE]

Idle == /\ entry = NoEntry /\ outcome = NoOutcome /\ result = NoResult /\ row = NoRow

Init ==
    /\ pc = "start"
    /\ \/ /\ argv = NoArgv /\ file_exists = FALSE /\ wb = EmptyWorkbook
       \/ /\ argv \in Argvs /\ file_exists = FALSE /\ wb = EmptyWorkbook
       \/ /\ argv \in Argvs /\ file_exists = TRUE /\ wb \in Workbooks \cup {EmptyWorkbook}
    /\ software_list = <<>>
    /\ results = <<>>
    /\ flagged = <<>>
    /\ outcomes = <<>>
    /\ prompts = <<>>
    /\ report = NotWritten
    /\ exit_code = -1
    /\ Idle

\* lines 34-50: usage and file checks
CheckArgs ==
    /\ pc = "start"
    /\ IF ~argv.given \/ ~file_exists
       THEN pc' = "exit" /\ exit_code' = 1
       ELSE pc' = "load" /\ UNCHANGED exit_code
    /\ UNCHANGED <<file_exists, argv, wb, software_list, results, flagged, outcomes,
                   prompts, report, entry, outcome, result, row>>

\* variant: an empty list does not stop the run
Load_without_empty_check ==
    /\ pc = "load"
    /\ software_list' = load_software_list(wb, argv.sheet_name, argv.all_sheets)
    /\ pc' = "scan"
    /\ UNCHANGED <<file_exists, argv, wb, results, flagged, outcomes,
                   prompts, report, exit_code, entry, outcome, result, row>>

\* lines 52-67: load, and stop when nothing was found; otherwise the client is
\* built from the three environment variables the module docstring requires,
\* which are taken to be set, and the scan starts
Load ==
    /\ pc = "load"
    /\ software_list' = load_software_list(wb, argv.sheet_name, argv.all_sheets)
    /\ IF software_list' = <<>>
       THEN pc' = "exit" /\ exit_code' = 1
       ELSE pc' = "scan" /\ UNCHANGED exit_code
    /\ UNCHANGED <<file_exists, argv, wb, results, flagged, outcomes,
                   prompts, report, entry, outcome, result, row>>

\* result.update(entry)
update(v, e) == [has_ai |-> v.has_ai, confidence |-> v.confidence, reason |-> v.reason,
                 vendor |-> e.vendor, product |-> e.product,
                 description |-> e.description, sheet |-> e.sheet]

\* variant: only the classification Yes is flagged
scan_step_flags_yes_only(o) ==
    LET e == software_list[Len(results) + 1]
        r == update(check_for_ai(e, o), e)
    IN /\ results' = Append(results, r)
       /\ flagged' = IF r.has_ai = "Yes" THEN Append(flagged, r) ELSE flagged
       /\ outcomes' = Append(outcomes, o)
       /\ prompts' = Append(prompts, software_info(e))

\* one iteration of the loop of scan_software, the endpoint doing o
scan_step(o) ==
    LET e == software_list[Len(results) + 1]
        r == update(check_for_ai(e, o), e)
    IN /\ results' = Append(results, r)
       /\ flagged' = IF r.has_ai \in {"Yes", "Unknown"} THEN Append(flagged, r) ELSE flagged
       /\ outcomes' = Append(outcomes, o)
       /\ prompts' = Append(prompts, software_info(e))

Scan ==
    /\ pc = "scan"
    /\ Len(results) < Len(software_list)
    /\ \E o \in Outcomes : scan_step(o)
    /\ UNCHANGED <<pc, file_exists, argv, wb, software_list, report, exit_code,
                   entry, outcome, result, row>>

\* lines 70-74: scan_software has returned; save_results writes the report
Save ==
    /\ pc = "scan"
    /\ Len(results) = Len(software_list)
    /\ report' = [written |-> TRUE, rows |-> save_results(results)]
    /\ pc' = "summary"
    /\ UNCHANGED <<file_exists, argv, wb, software_list, results, flagged, outcomes,
                   prompts, exit_code, entry, outcome, result, row>>

\* lines 76-80: the summary is printed and main returns
Summary ==
    /\ pc = "summary"
    /\ pc' = "done"
    /\ exit_code' = 0
    /\ UNCHANGED <<file_exists, argv, wb, software_list, results, flagged, outcomes,
                   prompts, report, entry, outcome, result, row>>

Next == CheckArgs \/ Load \/ Scan \/ Save \/ Summary

Spec == Init /\ [][Next]_vars

\* main() up to the return of load_software_list
NextLoad == CheckArgs \/ Load

SpecLoad == Init /\ [][NextLoad]_vars

(***************************************************************************)
(* check_for_ai called on its own, on any reply of a few lines             *)
(***************************************************************************)
LongSpaced == strip(Rep("word ", 60))              \* 299 characters, a space every fifth
LongTail == "see " \o Rep("x", 296)                \* 300 characters, one space
LongWord == Rep("a", 300)                          \* 300 characters, no space
Exactly256 == Rep("abcd efg", 32)                  \* 256 characters

ReplyLines ==
    { "HAS_AI: Yes", "HAS_AI: No", "HAS_AI: Unknown", "has_ai: yes",
      "HAS_AI: YES, NO WAIT", "  HAS_AI: maybe",
      "CONFIDENCE: High", " CONFIDENCE: low ", "Confidence: high",
      "REASON: uses OCR", "Reason: uses OCR",
      "REASON: " \o LongSpaced, "REASON: " \o LongWord, "REASON: " \o LongTail,
      "REASON: " \o Exactly256,
      "I do not know this product." }

RECURSIVE join(_)
join(lines) ==
    IF lines = <<>> THEN ""
    ELSE IF Len(lines) = 1 THEN lines[1]
    ELSE lines[1] \o "\n" \o join(Tail(lines))

Replies == { [kind |-> "text", text |-> join(ls)] : ls \in SeqsUpTo(ReplyLines, MaxLines) }

Failures == { [kind |-> "raise", msg |-> "Connection error."],
              [kind |-> "raise", msg |-> ""],
              [kind |-> "none"] }

AnEntry == [vendor |-> "Acme", product |-> "Transcribe Pro",
            description |-> "voice to text", sheet |-> DefaultSheet]

PipelineIdle ==
    /\ file_exists = TRUE /\ argv = NoArgv /\ wb = EmptyWorkbook
    /\ software_list = <<>> /\ results = <<>> /\ flagged = <<>>
    /\ outcomes = <<>> /\ prompts = <<>> /\ report = NotWritten /\ exit_code = -1

InitClassify ==
    /\ pc = "call"
    /\ entry = AnEntry
    /\ outcome \in Replies \cup Failures
    /\ result = NoResult
    /\ row = NoRow
    /\ PipelineIdle

Classify ==
    /\ pc = "call"
    /\ result' = check_for_ai(entry, outcome)
    /\ pc' = "returned"
    /\ UNCHANGED <<file_exists, argv, wb, software_list, results, flagged, outcomes,
                   prompts, report, exit_code, entry, outcome, row>>

NextClassify == Classify

SpecClassify == InitClassify /\ [][NextClassify]_vars

(***************************************************************************)
(* save_results called on one result of any content                        *)
(***************************************************************************)
Vendors == {"Acme", "", "=SUM(A1:A9)", "NormalName", "Bad #NULL! Co"}
Products == {"Ledger", "", "-Tool", "Calc #N/A"}
Descriptions == {"", "voice to text", "+1 more", "@home", "#REF!", "see #VALUE! here",
                 "#DIV/0!", "#NAME?", "x #NUM!"}
Classifications == {"Yes", "No", "Unknown", "ERROR"}
Confidences == {"HIGH", "MEDIUM", "LOW", "Low", "N/A"}
Reasons == {"uses OCR", "Could not determine", "- no AI features", "=1+1", "@see", "+1", ""}

AnyResults ==
    [has_ai : Classifications, confidence : Confidences, reason : Reasons,
     vendor : Vendors, product : Products, description : Descriptions,
     sheet : {DefaultSheet}]

InitSave ==
    /\ pc = "save_call"
    /\ result \in AnyResults
    /\ row = NoRow
    /\ entry = NoEntry
    /\ outcome = NoOutcome
    /\ PipelineIdle

SaveOne ==
    /\ pc = "save_call"
    /\ row' = save_results(<<result>>)[1]
    /\ pc' = "saved"
    /\ UNCHANGED <<file_exists, argv, wb, software_list, results, flagged, outcomes,
                   prompts, report, exit_code, entry, outcome, result>>

NextSave == SaveOne

SpecSave == InitSave /\ [][NextSave]_vars

(***************************************************************************)
(* Properties                                                              *)
(***************************************************************************)
Failed(o) == o.kind \in {"raise", "none"}

\* a written cell holds the field, possibly behind the neutralizing apostrophe
Carries(cell, field) == cell = field \/ cell = "'" \o field

\* C1: scan_software followed by save_results writes exactly one report row
\* per loaded record, and the i-th row carries the sheet, vendor, product and
\* description of the i-th loaded record, whatever the LLM calls did.
C1_OneRowPerRecord ==
    report.written =>
        /\ Len(report.rows) = Len(software_list)
        /\ \A i \in 1..Len(report.rows) :
              /\ report.rows[i].sheet = software_list[i].sheet
              /\ Carries(report.rows[i].vendor, software_list[i].vendor)
              /\ Carries(report.rows[i].product, software_list[i].product)
              /\ Carries(report.rows[i].description, software_list[i].description)

C1_Witness ==
    /\ report.written
    /\ Len(report.rows) >= 3
    /\ software_list[1] # software_list[2]
    /\ software_list[3].sheet # software_list[1].sheet
    /\ Failed(outcomes[2])
    /\ ~Failed(outcomes[3])

\* C2: a failed LLM call (the client raises, or the reply has no text) gives
\* that record the verdict ERROR / N/A / stringified cause and nothing else:
\* the scan goes on, every record gets a verdict that depends on its own call
\* only, and the process does not fail.
C2_FailureIsolated ==
    /\ Len(outcomes) = Len(results)
    /\ \A i \in 1..Len(results) :
          /\ outcomes[i].kind = "raise" =>
                /\ results[i].has_ai = "ERROR"
                /\ results[i].confidence = "N/A"
                /\ results[i].reason = outcomes[i].msg
          /\ outcomes[i].kind = "none" =>
                /\ results[i].has_ai = "ERROR"
                /\ results[i].confidence = "N/A"
                /\ results[i].reason = NoneSplitMsg
          /\ outcomes[i].kind = "text" => results[i].has_ai \in {"Yes", "No", "Unknown"}
          /\ results[i].vendor = software_list[i].vendor
          /\ results[i].product = software_list[i].product
          /\ \A j \in 1..Len(results) :
                outcomes[i] = outcomes[j] =>
                    /\ results[i].has_ai = results[j].has_ai
                    /\ results[i].confidence = results[j].confidence
                    /\ results[i].reason = results[j].reason
    /\ pc \in {"summary", "done"} => Len(results) = Len(software_list)
    /\ outcomes # <<>> => exit_code # 1

C2_Witness ==
    /\ pc = "done"
    /\ Len(results) >= 3
    /\ outcomes[1].kind = "none"
    /\ outcomes[2].kind = "raise"
    /\ outcomes[3].kind = "text"
    /\ results[1].has_ai = "ERROR"
    /\ results[3].has_ai = "Yes"

\* C3: every record whose classification is Error is written to the report
\* with Needs Review = Yes.
C3_ErrorNeedsReview ==
    report.written =>
        \A i \in 1..Len(report.rows) :
            report.rows[i].has_ai = "ERROR" => report.rows[i].needs_review = "Yes"

\* the data-quality issue as the review policy defines it
ErrorTokens == <<"#REF!", "#N/A", "#VALUE!", "#DIV/0!", "#NAME?", "#NUM!", "#NULL!">>

DataQualityIssue(r) ==
    \/ r.vendor = ""
    \/ r.product = ""
    \/ \E k \in 1..Len(ErrorTokens) :
          \/ contains(ErrorTokens[k], r.vendor)
          \/ contains(ErrorTokens[k], r.product)
          \/ contains(ErrorTokens[k], r.description)

\* C4: for a row whose classification is No, Needs Review is Yes exactly when
\* its confidence is Low or the record has a data-quality issue.
C4_ReviewUnion ==
    (pc = "saved" /\ result.has_ai = "No") =>
        /\ row.needs_review \in {"Yes", "No"}
        /\ row.needs_review = "Yes" <=>
              (result.confidence \in {"Low", "LOW", "low"} \/ DataQualityIssue(result))

C4_Witness ==
    /\ pc = "saved"
    /\ result.has_ai = "No"
    /\ result.confidence = "HIGH"
    /\ result.vendor = "Acme"
    /\ result.product = ""
    /\ result.description = ""
    /\ row.needs_review = "Yes"

Risky == {"=", "+", "-", "@"}

Neutralized(cell, field) ==
    /\ IF field # "" /\ SubSeq(field, 1, 1) \in Risky
       THEN cell = "'" \o field
       ELSE cell = field
    /\ cell = "" \/ SubSeq(cell, 1, 1) \notin Risky

\* C5: in every written row, each of vendor, product, description and reason
\* is the field prefixed with an apostrophe when the field begins with one of
\* = + - @, and the field unchanged otherwise; so no such cell begins with
\* = + - or @.
C5_Sanitized ==
    pc = "saved" =>
        /\ Neutralized(row.vendor, result.vendor)
        /\ Neutralized(row.product, result.product)
        /\ Neutralized(row.description, result.description)
        /\ Neutralized(row.reason, result.reason)

C5_Witness ==
    /\ pc = "saved"
    /\ result.vendor = "=SUM(A1:A9)" /\ row.vendor = "'=SUM(A1:A9)"
    /\ result.product = "-Tool" /\ row.product = "'-Tool"
    /\ result.description = "@home" /\ row.description = "'@home"
    /\ result.reason = "uses OCR" /\ row.reason = "uses OCR"

\* C6: with the input file missing or no usable record loaded, the process
\* exits non-zero before any LLM call and before any report is written; with
\* at least one record loaded the run goes through to exit status 0, also
\* when every verdict is ERROR.
C6_ExitStatus ==
    /\ ~file_exists => pc \in {"start", "exit"}
    /\ (pc \notin {"start", "load"} /\ software_list = <<>>) => pc = "exit"
    /\ pc = "exit" =>
          /\ exit_code = 1
          /\ outcomes = <<>> /\ prompts = <<>> /\ results = <<>>
          /\ ~report.written
          /\ ~argv.given \/ ~file_exists \/ software_list = <<>>
    /\ exit_code = 1 => pc = "exit"
    /\ pc = "done" => exit_code = 0 /\ report.written /\ software_list # <<>>
    /\ pc \in {"scan", "summary"} => ENABLED Next

C6_Witness ==
    /\ pc = "done"
    /\ exit_code = 0
    /\ Len(results) >= 2
    /\ \A i \in 1..Len(results) : results[i].has_ai = "ERROR"

\* the header cells of a sheet as the loader matches them: trimmed, lower-cased
HeaderNames(sheet) ==
    LET h == wb.rows[sheet][1] IN [i \in 1..Len(h) |-> strip(lower(str_or_empty(h[i])))]

IsVendorHeader(name) == contains("vendor", name) /\ contains("name", name)
IsProduct(name) == name = "product name"
IsStatus(name) == name = "status"

\* the column (from 1) whose header name satisfies P, 0 when there is none
ColumnWhere(h, P(_)) ==
    IF \E i \in 1..Len(h) : P(h[i]) THEN CHOOSE i \in 1..Len(h) : P(h[i]) ELSE 0

\* the sheets load_software_list was asked for and the workbook has
ProcessedSheets ==
    { wb.sheetnames[k] : k \in 1..Len(wb.sheetnames) } \cap
    (IF argv.all_sheets THEN { wb.sheetnames[k] : k \in 1..Len(wb.sheetnames) }
     ELSE IF argv.sheet_name = NoSheetName THEN {DefaultSheet} ELSE {argv.sheet_name})

RecordsOf(sheet) == { i \in 1..Len(software_list) : software_list[i].sheet = sheet }

Loaded == pc \notin {"start", "load", "call", "returned", "save_call", "saved"}

\* empty, or the placeholder nan in any letter case, after trimming
Unusable(c) == LET t == strip(str_or_empty(c)) IN t = "" \/ lower(t) = "nan"

UsableRows(sheet) ==
    LET rows == wb.rows[sheet] IN
    IF rows = <<>> THEN {}
    ELSE LET h == HeaderNames(sheet)
             v == ColumnWhere(h, IsVendorHeader)
             p == ColumnWhere(h, IsProduct)
         IN IF v = 0 \/ p = 0 THEN {}
            ELSE { k \in 2..Len(rows) : ~Unusable(rows[k][v]) /\ ~Unusable(rows[k][p]) }

\* C7: a data row whose vendor cell or product cell is empty, or is "nan" in
\* any letter case after trimming, never appears in the list returned by
\* load_software_list, wherever the columns are: each sheet contributes no
\* more records than it has usable rows, and no record has such a vendor or
\* product.
C7_UnusableRowsSkipped ==
    Loaded =>
        /\ \A i \in 1..Len(software_list) :
              /\ software_list[i].sheet \in ProcessedSheets
              /\ software_list[i].vendor # "" /\ lower(software_list[i].vendor) # "nan"
              /\ software_list[i].product # "" /\ lower(software_list[i].product) # "nan"
        /\ \A sh \in ProcessedSheets : Cardinality(RecordsOf(sh)) <= Cardinality(UsableRows(sh))

C7_Witness ==
    /\ Loaded
    /\ DefaultSheet \in ProcessedSheets
    /\ Len(wb.rows[DefaultSheet]) = 3
    /\ HeaderNames(DefaultSheet) = <<"description", "product name", "notes", "status", "name of vendor">>
    /\ wb.rows[DefaultSheet][2][5] = Str(" NaN ")
    /\ wb.rows[DefaultSheet][3][5] = Str("Globex")
    /\ wb.rows[DefaultSheet][3][2] = Str("Calc #REF!")
    /\ Len(software_list) = 1
    /\ software_list[1].vendor = "Globex"

ActiveRows(sheet) ==
    LET rows == wb.rows[sheet] IN
    IF rows = <<>> THEN {}
    ELSE LET st == ColumnWhere(HeaderNames(sheet), IsStatus)
         IN IF st = 0 THEN 2..Len(rows)
            ELSE { k \in 2..Len(rows) : upper(str_or_empty(rows[k][st])) # "INACTIVE" }

\* C8: when a sheet has a column whose trimmed, lower-cased header is exactly
\* "status", at any column position, every data row whose status cell
\* uppercased equals INACTIVE is skipped: each sheet contributes no more
\* records than it has rows that are not INACTIVE.
C8_InactiveRowsSkipped ==
    Loaded =>
        \A sh \in ProcessedSheets : Cardinality(RecordsOf(sh)) <= Cardinality(ActiveRows(sh))

\* no line of the text, trimmed, starts with the prefix
NoLineStarts(text, prefix) ==
    LET lines == split(text, "\n")
    IN \A k \in 1..Len(lines) : ~startswith(strip(lines[k]), prefix)

Returned == pc = "returned" /\ outcome.kind = "text"

\* C9 as stated: a reply with no line starting with HAS_AI: yields the
\* verdict Unknown / Low / "Could not determine".
C9_AllDefaults ==
    (Returned /\ NoLineStarts(outcome.text, "HAS_AI:")) =>
        /\ result.has_ai = "Unknown"
        /\ result.confidence = "Low"
        /\ result.reason = "Could not determine"

\* C9 amended: a reply with no line starting with HAS_AI: yields the
\* classification Unknown; the confidence is Low when no line starts with
\* CONFIDENCE: either, and the reason is "Could not determine" when no line
\* starts with REASON: either.
C9_DefaultPerField ==
    (Returned /\ NoLineStarts(outcome.text, "HAS_AI:")) =>
        /\ result.has_ai = "Unknown"
        /\ NoLineStarts(outcome.text, "CONFIDENCE:") => result.confidence = "Low"
        /\ NoLineStarts(outcome.text, "REASON:") => result.reason = "Could not determine"

C9_Witness ==
    /\ Returned
    /\ outcome.text = "has_ai: yes\nCONFIDENCE: High"
    /\ result.has_ai = "Unknown"
    /\ result.confidence = "HIGH"
    /\ result.reason = "Could not determine"

\* the reason as extracted from the reply, before any truncation
ExtractedReason(text) ==
    parse_lines([has_ai |-> "Unknown", confidence |-> "Low",
                 reason |-> "Could not determine"], split(text, "\n")).reason

Ellipsis == "..."

EndsWithEllipsis(s) == Len(s) >= 3 /\ SubSeq(s, Len(s) - 2, Len(s)) = Ellipsis

\* the text before the marker
Kept(s) == SubSeq(s, 1, Len(s) - 3)

\* C10 as stated: an extracted reason longer than 256 characters is returned
\* with at most 256 characters, ending with "...", the text before the marker
\* ending at a whitespace boundary of the original reason; a reason of at most
\* 256 characters is returned unchanged.
C10_NeverSplitsWord ==
    Returned =>
        LET r == ExtractedReason(outcome.text)
            out == result.reason
        IN IF Len(r) > MaxReason
           THEN /\ Len(out) <= MaxReason
                /\ EndsWithEllipsis(out)
                /\ Kept(out) = SubSeq(r, 1, Len(Kept(out)))
                /\ IsSpace(SubSeq(r, Len(Kept(out)) + 1, Len(Kept(out)) + 1))
           ELSE out = r

\* C10 amended: as stated when the first 253 characters of the reason contain
\* a space (the text before the marker then ends just before the last of
\* those spaces); when they contain none, the text before the marker is the
\* first 253 characters, wherever in a word that falls.
C10_Truncation ==
    Returned =>
        LET r == ExtractedReason(outcome.text)
            out == result.reason
        IN IF Len(r) > MaxReason
           THEN /\ Len(out) <= MaxReason
                /\ EndsWithEllipsis(out)
                /\ Kept(out) = SubSeq(r, 1, Len(Kept(out)))
                /\ IF contains(" ", SubSeq(r, 1, CutAt))
                   THEN /\ SubSeq(r, Len(Kept(out)) + 1, Len(Kept(out)) + 1) = " "
                        /\ ~contains(" ", SubSeq(r, Len(Kept(out)) + 2, CutAt))
                   ELSE Len(Kept(out)) = CutAt
           ELSE out = r

C10_Witness ==
    /\ Returned
    /\ outcome.text = "HAS_AI: Yes\nREASON: " \o LongSpaced
    /\ Len(ExtractedReason(outcome.text)) = 299
    /\ Len(result.reason) = 252
    /\ EndsWithEllipsis(result.reason)

\* the three prefixes and the verdict field each one sets
Prefixes == <<"HAS_AI:", "CONFIDENCE:", "REASON:">>
FieldOf == <<"has_ai", "confidence", "reason">>

\* the positions of the lines that, trimmed, start with the prefix as written
LinesWith(lines, prefix) == { k \in 1..Len(lines) : startswith(strip(lines[k]), prefix) }

FirstOf(S) == CHOOSE k \in S : \A j \in S : k <= j
LastOf(S) == CHOOSE k \in S : \A j \in S : k >= j

\* the verdict of a reply that consists of this one line
VerdictOfLine(line) == check_for_ai(AnEntry, [kind |-> "text", text |-> line])

\* C11 as stated: when several lines of a reply have the same prefix, the
\* verdict field is taken from the first of them and the later ones are
\* ignored.
C11_FirstLineWins ==
    Returned =>
        LET lines == split(outcome.text, "\n") IN
        \A p \in 1..3 :
            LinesWith(lines, Prefixes[p]) # {} =>
                result[FieldOf[p]] =
                    VerdictOfLine(lines[FirstOf(LinesWith(lines, Prefixes[p]))])[FieldOf[p]]

\* C11 amended: when several lines of a reply have the same prefix, the
\* verdict field is taken from the last of them and the earlier ones are
\* ignored.
C11_LastLineWins ==
    Returned =>
        LET lines == split(outcome.text, "\n") IN
        \A p \in 1..3 :
            LinesWith(lines, Prefixes[p]) # {} =>
                result[FieldOf[p]] =
                    VerdictOfLine(lines[LastOf(LinesWith(lines, Prefixes[p]))])[FieldOf[p]]

C11_Witness ==
    /\ Returned
    /\ outcome.text = "HAS_AI: Yes\nHAS_AI: No"
    /\ result.has_ai = "No"

\* the line with its prefix written in upper case, when it has one of the
\* three prefixes in some other letter case; any other line as it is
UpperPrefix(line) ==
    LET t == strip(line)
        n == Len("CONFIDENCE:")
        start == upper(IF Len(t) > n THEN SubSeq(t, 1, n) ELSE t)
    IN IF \E p \in 1..3 : startswith(start, Prefixes[p]) /\ ~startswith(t, Prefixes[p])
       THEN LET p == CHOOSE q \in 1..3 : startswith(start, Prefixes[q])
            IN Prefixes[p] \o SubSeq(t, Len(Prefixes[p]) + 1, Len(t))
       ELSE line

\* has one of the three prefixes, but not in upper case
OtherCasePrefix(line) == UpperPrefix(line) # line

RECURSIVE WithoutOtherCase(_)
WithoutOtherCase(lines) ==
    IF lines = <<>> THEN <<>>
    ELSE IF OtherCasePrefix(Head(lines)) THEN WithoutOtherCase(Tail(lines))
    ELSE <<Head(lines)>> \o WithoutOtherCase(Tail(lines))

VerdictOfLines(lines) == check_for_ai(AnEntry, [kind |-> "text", text |-> join(lines)])

\* C12 as stated: the three prefixes are matched case-insensitively, so a
\* reply gives the verdict of the same reply with its prefixes written in
\* upper case.
C12_PrefixAnyCase ==
    Returned =>
        LET lines == split(outcome.text, "\n")
        IN result = VerdictOfLines([k \in 1..Len(lines) |-> UpperPrefix(lines[k])])

\* C12 amended: the three prefixes are matched in upper case only; a line
\* whose prefix is written in another letter case is not recognised, and the
\* reply gives the verdict of the same reply without such lines.
C12_PrefixUpperOnly ==
    Returned =>
        result = VerdictOfLines(WithoutOtherCase(split(outcome.text, "\n")))

C12_Witness ==
    /\ Returned
    /\ outcome.text = "has_ai: yes\nReason: uses OCR"
    /\ result = [has_ai |-> "Unknown", confidence |-> "Low", reason |-> "Could not determine"]

\* the upper-cased text after the classification prefix of the line that
\* decides the classification, the last one with the prefix
DecidingValue(lines) ==
    LET t == strip(lines[LastOf(LinesWith(lines, "HAS_AI:"))])
    IN upper(SubSeq(t, Len("HAS_AI:") + 1, Len(t)))

\* C13: when the LLM call succeeds the classification is one of Yes, No,
\* Unknown, decided on the upper-cased text after the classification prefix:
\* Yes if it contains YES (also when it contains NO as well), else No if it
\* contains NO, else Unknown; Unknown too when no line has the prefix.
C13_YesBeforeNo ==
    Returned =>
        LET lines == split(outcome.text, "\n") IN
        /\ result.has_ai \in {"Yes", "No", "Unknown"}
        /\ IF LinesWith(lines, "HAS_AI:") = {} THEN result.has_ai = "Unknown"
           ELSE result.has_ai = IF contains("YES", DecidingValue(lines)) THEN "Yes"
                                ELSE IF contains("NO", DecidingValue(lines)) THEN "No"
                                ELSE "Unknown"

C13_Witness ==
    /\ Returned
    /\ outcome.text = "HAS_AI: YES, NO WAIT"
    /\ result.has_ai = "Yes"

\* C14: when the classification line of the reply is "HAS_AI: Unknown" (the
\* value in any letter case), the classification is Unknown, never No, and
\* the record is written with Needs Review = Yes.
C14_UnknownIsKept ==
    (Returned /\ LinesWith(split(outcome.text, "\n"), "HAS_AI:") # {}) =>
        (strip(DecidingValue(split(outcome.text, "\n"))) = "UNKNOWN" =>
            /\ result.has_ai = "Unknown"
            /\ report_row(update(result, entry)).needs_review = "Yes")

\* the members of rs at the positions in S, in order
SelectedAt(rs, S) ==
    [i \in 1..Cardinality(S) |-> rs[CHOOSE k \in S : Cardinality({j \in S : j <= k}) = i]]

WrittenForReview(k) == report.rows[k].needs_review = "Yes"
YesOrUnknown(k) == results[k].has_ai \in {"Yes", "Unknown"}

\* C15 as stated: after a run, the flagged list returned by scan_software
\* holds exactly the results that save_results writes with Needs Review = Yes.
C15_FlaggedIsNeedsReview ==
    report.written => flagged = SelectedAt(results, {k \in 1..Len(results) : WrittenForReview(k)})

\* C15 amended: the flagged list holds exactly the results classified Yes or
\* Unknown, in order; each of them is written with Needs Review = Yes, and a
\* row written with Needs Review = Yes that is not flagged is classified No
\* or ERROR.
C15_FlaggedIsYesOrUnknown ==
    /\ flagged = SelectedAt(results, {k \in 1..Len(results) : YesOrUnknown(k)})
    /\ report.written =>
          \A k \in 1..Len(results) :
              /\ YesOrUnknown(k) => WrittenForReview(k)
              /\ (WrittenForReview(k) /\ ~YesOrUnknown(k)) => results[k].has_ai \in {"No", "ERROR"}

C15_Witness ==
    /\ pc = "done"
    /\ Len(results) >= 3
    /\ Len(flagged) = 2
    /\ results[1].has_ai = "Unknown"
    /\ results[2].has_ai = "No"
    /\ results[3].has_ai = "Yes"
    /\ report.rows[2].needs_review = "Yes"

====
